---- MODULE Spec2Model ----
(***************************************************************************)
(* The crash-game engine (server/crashEngine.ts) running against the       *)
(* in-memory store (server/storage.ts), with the WebSocket request         *)
(* handlers of server/routes.ts as the callers of placeBet/manualCashOut.  *)
(*                                                                         *)
(* Execution model.  Node runs one continuation at a time; an async        *)
(* function runs synchronously up to its next `await` and its continuation *)
(* runs later.  Every MemStorage method is an async function without an    *)
(* inner await, so its reads and writes happen at the moment it is CALLED, *)
(* and the caller resumes later with the value returned.  One action of    *)
(* this module is therefore one continuation: it resumes after the pending *)
(* await, runs the synchronous code that follows, performs the next        *)
(* storage call (effect included) and stops at that call's await.  The     *)
(* order in which pending continuations, timer callbacks and client        *)
(* requests run is left open.                                              *)
(*                                                                         *)
(* MemStorage hands out the stored objects themselves (users.get, a filter *)
(* over bets.values()), so a field read after an await sees the live       *)
(* value: a list returned by the store is kept as a list of bet ids, and   *)
(* isActive / balance are read from the store when the code reads them.    *)
(*                                                                         *)
(* Units.  Money is in cents, multipliers in hundredths (100 = 1.00x),     *)
(* time in milliseconds.                                                   *)
(***************************************************************************)
EXTENDS Integers, Sequences, FiniteSets

\* ------------------------------------------------------------------ bounds
\* Rounds played out: the round after them is still created (startNewRound runs to
\* its await), and there the run is cut.
MaxRounds == 1
\* Client requests (placeBet + cashOut messages) accepted over a run.
MaxCalls == 2
\* processAutoCashOuts passes that may be pending at the same time (a flight tick
\* waits for a free slot): Spec lets requests overlap and runs the passes one at
\* a time, SpecSettle runs the requests one at a time and lets the passes overlap.
MaxPasses == 1
SettleSlots == 1
SettlePasses == 2
\* Rounds played out by SpecRounds, which runs the engine without client requests.
LifeRounds == 2
\* Milliseconds for which a flight is followed: from then on the clock reading the
\* flight tick takes stands still.
MaxFlight == 3000
\* Sockets of the browser that SpecClient lets open.
MaxOpens == 4

\* ------------------------------------------------------- program constants
WAIT_TIME == 10000
FirstRoundIdCounter == 127534
DefaultBalance == 1258050
MIN_GAME_TIME == 1000
MAX_GAME_TIME == 30000

\* ------------------------------------------------------------------ inputs
\* null / undefined of the source, for numeric fields.
Null == -1
\* NaN of IEEE 754, what parseFloat gives for a string that starts with no number:
\* every comparison with it is false, every sum, difference and product with it is
\* NaN, and toFixed(2) of it is the string "NaN", which parseFloat reads as NaN again.
NaN == -2
DefaultUser == "default-user"
\* ws.userId of a request: the user the store holds.
UserIds == {DefaultUser}
\* message.amount of a placeBet request: "0", "100", "20000" (in cents).
Amounts == {0, 10000, 2000000}
\* message.autoCashOut of a placeBet request: absent, "1.05".
AutoCashOuts == {Null, 105}
\* Time between two firings of the 100 ms flight interval (a firing can be late).
TickDelays == {500, 1000}
\* Math.random() of generateCrashPoint, in thousandths: 0.99 (crash point 1.00).
Randoms == {990}
\* The draws SpecRounds takes: 0.99, 0.66, 0.495 (crash points 1.00, 1.50, 2.00).
LifeRandoms == {990, 660, 495}
\* The draws SpecFlight takes: 0 (Math.random() is in [0, 1)) and 0.99.
FlightRandoms == {0, 990}
\* The draws SpecDeadline takes: 0.03 (crash point 33.00) and 0.99.
DeadlineRandoms == {30, 990}

VARIABLES
    currentGame,      \* CrashEngine.currentGame
    countdownTimer,   \* CrashEngine.countdownTimer is set
    gameTimer,        \* CrashEngine.gameTimer is set
    roundIdCounter,   \* CrashEngine.roundIdCounter
    gameEndTime,      \* gameEndTime of startFlying's closure
    now,              \* Date.now()
    users,            \* MemStorage.users: balance of each user
    games,            \* MemStorage.games, in insertion order; a game's id is its index
    bets,             \* MemStorage.bets, in insertion order; a bet's id is its index
    crashPoint,       \* crashPoint of startFlying's closure
    replayCrashPoint, \* what generateCrashPoint returns when the same round is run again
    emitted,          \* the last gameStateUpdate and gameCrashed payloads emitted, the
                      \* events of the last step that emitted, the rounds of all gameCrashed
    round,            \* the pending startNewRound / crashGame call of the engine
    calls,            \* pending request handlers (placeBet, manualCashOut)
    passes,           \* pending processAutoCashOuts calls
    nCalls,           \* requests accepted so far
    client            \* the useWebSocket hook of one browser: its socket, state and refs

vars == <<currentGame, countdownTimer, gameTimer, roundIdCounter, gameEndTime, now,
          crashPoint, replayCrashPoint, emitted,
          users, games, bets, round, calls, passes, nCalls, client>>

serverVars == <<currentGame, countdownTimer, gameTimer, roundIdCounter, gameEndTime, now,
                crashPoint, replayCrashPoint, emitted,
                users, games, bets, round, calls, passes, nCalls>>

engineVars == <<currentGame, countdownTimer, gameTimer, roundIdCounter, gameEndTime, now,
                crashPoint, replayCrashPoint, emitted, round>>

\* ------------------------------------------------------------ conversions
\* RoundMultiplier computed from the milliseconds within the running second.
RoundMultiplierWrapped(elapsed) == 100 + (((elapsed % 1000) + 50) \div 100)

\* Math.round(newMultiplier * 100) / 100 with newMultiplier = 1 + (elapsed / 1000) * 0.1:
\* the multiplier in hundredths, rounded to the nearest hundredth.
RoundMultiplier(elapsed) == 100 + ((elapsed + 50) \div 100)

\* (parseFloat(amount) * parseFloat(multiplier)).toFixed(2): cents times hundredths,
\* rounded to the nearest cent.
WinAmount(amount, multiplier) ==
    IF amount = NaN THEN NaN ELSE (amount * multiplier + 50) \div 100

\* (userBalance - betAmount).toFixed(2) and (balance + winAmount).toFixed(2): both
\* operands are whole cents, so the two-decimal string is their exact difference / sum.
Debit(userBalance, betAmount) ==
    IF userBalance = NaN \/ betAmount = NaN THEN NaN ELSE userBalance - betAmount
Credit(balance, winAmount) ==
    IF balance = NaN \/ winAmount = NaN THEN NaN ELSE balance + winAmount

\* crashPoint * 1000 of startFlying: a crash point in hundredths, as milliseconds.
CrashDelay(point) == point * 10

\* Infinity of IEEE 754, what 99 / (r * 100) is for r = 0: above every number, and
\* kept by Math.floor, a division by 100, Math.max, a product and a sum.
Infinity == 1000000000

\* this.currentGame.startTime + (crashPoint * 1000) of startFlying.
GameEndTime(startTime, point) ==
    IF point = Infinity THEN Infinity ELSE startTime + CrashDelay(point)

\* ----------------------------------------------------------------- storage
BetIds == [i \in 1..Len(bets) |-> i]

\* MemStorage.getUser: the user object, or undefined.
GetUser(id) == id \in DOMAIN users

\* MemStorage.getGameByRoundId: id of the first game with that roundId, or undefined.
GetGameByRoundId(roundId) ==
    LET hits == {i \in 1..Len(games) : games[i].roundId = roundId}
    IN  IF hits = {} THEN Null ELSE CHOOSE i \in hits : \A j \in hits : i <= j

\* MemStorage.getActiveBetsByGameId: the active bets of a game, in insertion order.
GetActiveBetsByGameId(gameId) ==
    SelectSeq(BetIds, LAMBDA i : bets[i].gameId = gameId /\ bets[i].isActive)

\* MemStorage.getBetsByUserId: the bets of a user, in insertion order.
GetBetsByUserId(userId) ==
    SelectSeq(BetIds, LAMBDA i : bets[i].userId = userId)

\* MemStorage.createGame: the new record (multiplier "0.00", salt null).
NewGame(roundId, hash) ==
    [roundId |-> roundId, multiplier |-> 0, hash |-> hash, salt |-> "", crashed |-> FALSE]

\* MemStorage.updateGameCrash.
UpdateGameCrash(gameId, multiplier, salt) ==
    IF gameId \in 1..Len(games)
    THEN [games EXCEPT ![gameId].multiplier = multiplier,
                       ![gameId].salt = salt,
                       ![gameId].crashed = TRUE]
    ELSE games

\* MemStorage.createBet: the new record.  The last four fields are history: how often
\* cashOutBet wrote a cash-out to the bet (settles), how often and how much it credited
\* the player for it (credits, paid), and which path last wrote its cash-out.
NewBet(userId, gameId, amount, autoCashOut) ==
    [userId |-> userId, gameId |-> gameId, amount |-> amount,
     autoCashOut |-> autoCashOut, cashOutAt |-> Null, winAmount |-> Null,
     isActive |-> TRUE, settles |-> 0, credits |-> 0, paid |-> 0, settledBy |-> "none"]

\* MemStorage.updateBetCashOut, called by `by`.
UpdateBetCashOut(betId, cashOutAt, winAmount, by) ==
    IF betId \in 1..Len(bets)
    THEN [bets EXCEPT ![betId].cashOutAt = cashOutAt,
                      ![betId].winAmount = winAmount,
                      ![betId].isActive = FALSE,
                      ![betId].settledBy = by]
    ELSE bets

\* MemStorage.updateUserBalance.
UpdateUserBalance(userId, newBalance) ==
    IF userId \in DOMAIN users THEN [users EXCEPT ![userId] = newBalance] ELSE users

\* ------------------------------------------------------------------ engine
\* GenerateHash that digests the salt alone.
GenerateHashSaltOnly(roundId, salt) == <<0, salt>>

\* generateHash: sha256 of `${roundId}:${salt}`, kept as the pair it is a digest of.
Salts == {"salt"}
GenerateHash(roundId, salt) == <<roundId, salt>>

\* verifyHash: the digest is computed again and compared.
VerifyHash(roundId, salt, expectedHash) == GenerateHash(roundId, salt) = expectedHash

\* NextRoundId that hands out the counter as it stands.
SameRoundId(counter) == counter

\* NextRoundId that counts down.
PreviousRoundId(counter) == counter - 1

\* ++this.roundIdCounter of startNewRound.
NextRoundId(counter) == counter + 1

\* generateCrashPoint with Math.random() = r / 1000, r in 0..999:
\* Math.max(1, Math.floor((99 / (r * 100)) * 100) / 100), in hundredths.
GenerateCrashPoint(r) ==
    IF r = 0 THEN Infinity
    ELSE LET floored == 99000 \div r IN IF floored < 100 THEN 100 ELSE floored

\* GetPublicGameState that hands out the game as it is.
GetWholeGameState(game) == game

\* getPublicGameState: the current game without its salt.
GetPublicGameState(game) == [f \in DOMAIN game \ {"salt"} |-> game[f]]

\* EmitGameStateUpdate that emits nothing.
EmitNothing(game) == emitted

\* emit('gameStateUpdate', getPublicGameState()).
EmitGameStateUpdate(game) ==
    [emitted EXCEPT !.gameStateUpdate = GetPublicGameState(game),
                    !.events = <<"gameStateUpdate">>]

\* EmitGameCrashed that emits the snapshot alone.
EmitSnapshotOnly(game, crashMultiplier) == EmitGameStateUpdate(game)

\* emit('gameCrashed', {roundId, crashPoint: crashMultiplier}), then the snapshot.
EmitGameCrashed(game, crashMultiplier) ==
    [gameCrashed |-> [roundId |-> game.roundId, crashPoint |-> crashMultiplier],
     gameStateUpdate |-> GetPublicGameState(game),
     events |-> <<"gameCrashed", "gameStateUpdate">>,
     crashedRounds |-> Append(emitted.crashedRounds, game.roundId)]

\* Rounds started so far are within the horizon of a run.
Horizon(maxRounds) == roundIdCounter - FirstRoundIdCounter <= maxRounds

\* The GameState startNewRound builds.
NewGameState(roundId, salt) ==
    [roundId |-> roundId, phase |-> "waiting", multiplier |-> 100, startTime |-> 0,
     hash |-> GenerateHash(roundId, salt), salt |-> salt, countdown |-> WAIT_TIME \div 1000]

\* No call of the engine pending.  The last field is history: the bets that were
\* active, with their autoCashOut reached, at the tick that called crashGame.
RoundIdle == [pc |-> "idle", gameFromDb |-> Null, activeBets |-> <<>>, idx |-> 0,
              crashMultiplier |-> 0, dueAtCrash |-> {}]

\* A free slot of calls / passes.
Idle == [kind |-> "none", pc |-> "idle", userId |-> "", amount |-> 0, autoCashOut |-> Null,
         userFound |-> FALSE, userBalance |-> 0, gameFromDb |-> Null, list |-> <<>>,
         idx |-> 0, betId |-> 0, multiplier |-> 0, winAmount |-> 0, cobBets |-> <<>>,
         retWin |-> Null,
         success |-> FALSE, message |-> "",
         \* history of the call, for the properties below
         phaseAtCall |-> "", sawActive |-> FALSE, debited |-> FALSE, created |-> FALSE,
         settled |-> FALSE, credited |-> 0, events |-> 0, eventRoundId |-> Null]

\* The hook after its effect has run: connect() has created the first socket.  The
\* last three fields are history: the sockets that opened so far, the closes since
\* the last open, and the delays of the reconnects scheduled since the last open.
ClientMounted ==
    [socket |-> "connecting", isConnected |-> FALSE, reconnectAttempts |-> 0,
     reconnectTimeout |-> Null, mounted |-> TRUE,
     opens |-> 0, closes |-> 0, delays |-> <<>>]

\* The state the constructor leaves: startNewRound has run up to `await createGame`.
\* nSlots request handlers and nPasses processAutoCashOuts calls can be pending.
InitWith(nSlots, nPasses) ==
    /\ roundIdCounter = NextRoundId(FirstRoundIdCounter)
    /\ \E salt \in Salts :
        LET roundId == NextRoundId(FirstRoundIdCounter) IN
        /\ currentGame = NewGameState(roundId, salt)
        /\ games = <<NewGame(roundId, GenerateHash(roundId, salt))>>
    /\ crashPoint = Null
    /\ replayCrashPoint = Null
    /\ emitted = [gameStateUpdate |-> [phase |-> "none"],
                  gameCrashed |-> [roundId |-> 0, crashPoint |-> Null],
                  events |-> <<>>, crashedRounds |-> <<>>]
    /\ countdownTimer = FALSE
    /\ gameTimer = FALSE
    /\ gameEndTime = 0
    /\ now = 0
    /\ users = [u \in {DefaultUser} |-> DefaultBalance]
    /\ bets = <<>>
    /\ round = [RoundIdle EXCEPT !.pc = "createGame"]
    /\ calls = [c \in 1..nSlots |-> Idle]
    /\ passes = [p \in 1..nPasses |-> Idle]
    /\ nCalls = 0
    /\ client = ClientMounted

Init == InitWith(MaxCalls, MaxPasses)

InitSettle == InitWith(SettleSlots, SettlePasses)

\* startNewRound, from its call (the 3 s timeout of crashGame) to `await createGame`.
StartNewRound ==
    /\ round.pc = "timeout"
    /\ \E salt \in Salts :
        LET roundId == NextRoundId(roundIdCounter) IN
        /\ roundIdCounter' = roundId
        /\ currentGame' = NewGameState(roundId, salt)
        /\ games' = Append(games, NewGame(roundId, GenerateHash(roundId, salt)))
    /\ round' = [RoundIdle EXCEPT !.pc = "createGame"]
    /\ UNCHANGED <<countdownTimer, gameTimer, gameEndTime, now, crashPoint, replayCrashPoint,
                   emitted, users, bets, calls, passes, nCalls, client>>

\* startNewRound after `await createGame`: the snapshot is emitted, startCountdown
\* sets the 1 s interval.
StartCountdown ==
    /\ round.pc = "createGame"
    /\ round' = RoundIdle
    /\ emitted' = EmitGameStateUpdate(currentGame)
    /\ countdownTimer' = TRUE
    /\ UNCHANGED <<currentGame, gameTimer, roundIdCounter, gameEndTime, now, crashPoint,
                   replayCrashPoint, users, games, bets, calls, passes, nCalls, client>>

\* ClearInterval that leaves the interval running.
KeepInterval(timer) == timer

\* clearInterval(timer); timer = null.
ClearInterval(timer) == FALSE

\* CountdownOver that ends the countdown one tick early.
CountdownOverEarly(countdown) == countdown <= 1

\* `this.currentGame.countdown <= 0` of the countdown callback.
CountdownOver(countdown) == countdown <= 0

\* The countdown interval's callback; at 0 it runs startFlying, whose generateCrashPoint
\* draws r (a run of the same round over again draws again).
CountdownTick(r, again) ==
    /\ countdownTimer
    /\ LET countdown == currentGame.countdown - 1 IN
       IF CountdownOver(countdown)
       THEN /\ countdownTimer' = ClearInterval(countdownTimer)
            /\ currentGame' = [currentGame EXCEPT !.countdown = countdown,
                                                  !.phase = "flying",
                                                  !.startTime = now,
                                                  !.multiplier = 100]
            /\ crashPoint' = GenerateCrashPoint(r)
            /\ replayCrashPoint' = GenerateCrashPoint(again)
            /\ gameEndTime' = GameEndTime(now, crashPoint')
            /\ gameTimer' = TRUE
            /\ emitted' = EmitGameStateUpdate(currentGame')
       ELSE /\ currentGame' = [currentGame EXCEPT !.countdown = countdown]
            /\ emitted' = EmitGameStateUpdate(currentGame')
            /\ UNCHANGED <<countdownTimer, gameTimer, gameEndTime, crashPoint, replayCrashPoint>>
    /\ UNCHANGED <<roundIdCounter, now, users, games, bets, round, calls, passes, nCalls,
                   client>>

\* The lowest free slot of a slot array, 0 when there is none.
FreeSlot(slots) ==
    LET free == {i \in DOMAIN slots : slots[i].kind = "none"}
    IN  IF free = {} THEN 0 ELSE CHOOSE i \in free : \A j \in free : i <= j

\* The active bets of a game whose autoCashOut the multiplier has reached.
DueBets(gameId, multiplier) ==
    {b \in 1..Len(bets) : /\ bets[b].gameId = gameId
                          /\ bets[b].isActive
                          /\ bets[b].autoCashOut # Null
                          /\ bets[b].autoCashOut <= multiplier}

\* TickReady that has the callback wait until no processAutoCashOuts call is pending.
TickAwaitsPasses(slots) == \A i \in DOMAIN slots : slots[i].kind = "none"

\* The flight interval's callback can run: it calls processAutoCashOuts without an
\* await, so the calls of earlier firings that are still pending do not hold it back
\* (the call it makes takes a slot).
TickReady(slots) == FreeSlot(slots) # 0

\* Date.now() in the flight interval's callback when it fires at time t; the model
\* follows a flight for MaxFlight ms and holds the reading from there.
Clock(t) ==
    IF t - currentGame.startTime > MaxFlight THEN currentGame.startTime + MaxFlight ELSE t

\* The flight interval's callback, `delay` ms after the previous firing: the multiplier
\* is set from the clock, processAutoCashOuts is called (it runs to its first await,
\* getGameByRoundId) and is not awaited, and crashGame is called once the clock has
\* reached gameEndTime (it runs to its first await, getGameByRoundId).
FlyingTick(delay) ==
    /\ gameTimer
    /\ TickReady(passes)
    /\ now' = Clock(now + delay)
    /\ IF currentGame.phase # "flying"
       THEN UNCHANGED <<currentGame, gameTimer, round, passes, emitted>>
       ELSE LET multiplier == RoundMultiplier(now' - currentGame.startTime)
                gameFromDb == GetGameByRoundId(currentGame.roundId)
                crash      == now' >= gameEndTime
            IN  /\ passes' = [passes EXCEPT ![FreeSlot(passes)] =
                                 [Idle EXCEPT !.kind = "auto", !.pc = "auto_getGame",
                                              !.gameFromDb = gameFromDb]]
                /\ currentGame' = [currentGame EXCEPT
                                     !.multiplier = multiplier,
                                     !.phase = IF crash THEN "crashed" ELSE @]
                /\ emitted' = EmitGameStateUpdate([currentGame EXCEPT !.multiplier = multiplier])
                /\ gameTimer' = IF crash THEN ClearInterval(gameTimer) ELSE gameTimer
                /\ round' = IF crash
                            THEN [RoundIdle EXCEPT !.pc = "crash_getGame",
                                                   !.gameFromDb = gameFromDb,
                                                   !.crashMultiplier = multiplier,
                                                   !.dueAtCrash = DueBets(gameFromDb, multiplier)]
                            ELSE round
    /\ UNCHANGED <<countdownTimer, roundIdCounter, gameEndTime, crashPoint, replayCrashPoint,
                   users, games, bets, calls, nCalls, client>>

\* crashGame after `await getGameByRoundId`: updateGameCrash is called when the game
\* was found; otherwise the events are emitted and the 3 s timeout is set.
CrashGotGame ==
    /\ round.pc = "crash_getGame"
    /\ IF round.gameFromDb # Null /\ currentGame.salt # ""
       THEN /\ games' = UpdateGameCrash(round.gameFromDb, round.crashMultiplier, currentGame.salt)
            /\ round' = [round EXCEPT !.pc = "crash_updateGame"]
            /\ UNCHANGED emitted
       ELSE IF round.gameFromDb # Null
       THEN /\ round' = [round EXCEPT !.pc = "crash_getActive",
                                      !.activeBets = GetActiveBetsByGameId(round.gameFromDb),
                                      !.idx = 1]
            /\ UNCHANGED <<games, emitted>>
       ELSE /\ round' = [RoundIdle EXCEPT !.pc = "timeout"]
            /\ emitted' = EmitGameCrashed(currentGame, round.crashMultiplier)
            /\ UNCHANGED games
    /\ UNCHANGED <<currentGame, countdownTimer, gameTimer, roundIdCounter, gameEndTime, now,
                   crashPoint, replayCrashPoint, users, bets, calls, passes, nCalls, client>>

\* crashGame after `await updateGameCrash`: getActiveBetsByGameId is called.
CrashUpdatedGame ==
    /\ round.pc = "crash_updateGame"
    /\ round' = [round EXCEPT !.pc = "crash_getActive",
                              !.activeBets = GetActiveBetsByGameId(round.gameFromDb),
                              !.idx = 1]
    /\ UNCHANGED <<currentGame, countdownTimer, gameTimer, roundIdCounter, gameEndTime, now,
                   crashPoint, replayCrashPoint, emitted, users, games, bets, calls, passes,
                   nCalls, client>>

\* crashGame after `await getActiveBetsByGameId` or after an `await updateBetCashOut`
\* of the loop: the next bet of the list is written as a loss, or, the list done,
\* gameCrashed and the snapshot are emitted and the 3 s timeout is set.
CrashSweep ==
    /\ round.pc = "crash_getActive"
    /\ IF round.idx <= Len(round.activeBets)
       THEN /\ bets' = UpdateBetCashOut(round.activeBets[round.idx], 0, 0, "sweep")
            /\ round' = [round EXCEPT !.idx = @ + 1]
            /\ UNCHANGED emitted
       ELSE /\ round' = [RoundIdle EXCEPT !.pc = "timeout"]
            /\ emitted' = EmitGameCrashed(currentGame, round.crashMultiplier)
            /\ UNCHANGED bets
    /\ UNCHANGED <<currentGame, countdownTimer, gameTimer, roundIdCounter, gameEndTime, now,
                   crashPoint, replayCrashPoint, users, games, calls, passes, nCalls, client>>

\* --------------------------------------------------------------- placeBet
\* A handler's result: it stays in its slot until routes.ts sends the response.
Return(r, success, message) ==
    [r EXCEPT !.pc = "done", !.success = success, !.message = message,
              !.list = <<>>, !.cobBets = <<>>]

\* `betAmount <= 0` of placeBet.
NotPositive(betAmount) == betAmount # NaN /\ betAmount <= 0

\* ExceedsBalance with the comparison turned round.
ExceedsBalanceSwapped(betAmount, userBalance) == betAmount < userBalance

\* `betAmount > userBalance` of placeBet.
ExceedsBalance(betAmount, userBalance) ==
    betAmount # NaN /\ userBalance # NaN /\ betAmount > userBalance

\* GameNotFound that lets every lookup pass.
GameAlwaysFound(gameFromDb) == FALSE

\* `!gameFromDb` of placeBet.
GameNotFound(gameFromDb) == gameFromDb = Null

\* existingBets.some(bet => bet.gameId === gameFromDb.id && bet.isActive)
HasActiveBet(existingBets, gameId) ==
    \E k \in 1..Len(existingBets) :
        bets[existingBets[k]].gameId = gameId /\ bets[existingBets[k]].isActive

\* A placeBet request arrives (routes.ts calls placeBet): the phase check, then getUser.
PlaceBet(userId, amount, autoCashOut) ==
    /\ nCalls < MaxCalls
    /\ FreeSlot(calls) # 0
    /\ nCalls' = nCalls + 1
    /\ LET r == [Idle EXCEPT !.kind = "placeBet", !.userId = userId, !.amount = amount,
                             !.autoCashOut = autoCashOut,
                             !.phaseAtCall = currentGame.phase]
       IN calls' = [calls EXCEPT ![FreeSlot(calls)] =
            IF currentGame.phase # "waiting"
            THEN Return(r, FALSE, "Betting is not available right now")
            ELSE [r EXCEPT !.pc = "pb_getUser", !.userFound = GetUser(userId)]]
    /\ UNCHANGED <<engineVars, users, games, bets, passes, client>>

\* placeBet after `await getUser`: the amount and balance checks, then getGameByRoundId.
PlaceBetGotUser(c) ==
    /\ calls[c].pc = "pb_getUser"
    /\ LET r == calls[c] IN
       calls' = [calls EXCEPT ![c] =
            IF ~r.userFound THEN Return(r, FALSE, "User not found")
            ELSE LET userBalance == users[r.userId]
                     seen == [r EXCEPT !.userBalance = userBalance]
                 IN IF NotPositive(r.amount)
                    THEN Return(seen, FALSE, "Bet amount must be greater than 0")
                    ELSE IF ExceedsBalance(r.amount, userBalance)
                    THEN Return(seen, FALSE, "Insufficient balance")
                    ELSE [seen EXCEPT !.pc = "pb_getGame",
                                      !.gameFromDb = GetGameByRoundId(currentGame.roundId)]]
    /\ UNCHANGED <<engineVars, users, games, bets, passes, nCalls, client>>

\* placeBet after `await getGameByRoundId`: getBetsByUserId.
PlaceBetGotGame(c) ==
    /\ calls[c].pc = "pb_getGame"
    /\ LET r == calls[c] IN
       calls' = [calls EXCEPT ![c] =
            IF GameNotFound(r.gameFromDb) THEN Return(r, FALSE, "Game not found")
            ELSE [r EXCEPT !.pc = "pb_getBets", !.list = GetBetsByUserId(r.userId)]]
    /\ UNCHANGED <<engineVars, users, games, bets, passes, nCalls, client>>

\* placeBet after `await getBetsByUserId`: the one-bet check, then updateUserBalance
\* with the balance read after getUser.
PlaceBetGotBets(c) ==
    /\ calls[c].pc = "pb_getBets"
    /\ LET r == calls[c] IN
       IF HasActiveBet(r.list, r.gameFromDb)
       THEN /\ calls' = [calls EXCEPT ![c] =
                  Return([r EXCEPT !.sawActive = TRUE], FALSE,
                         "You already have a bet placed for this round")]
            /\ UNCHANGED users
       ELSE /\ users' = UpdateUserBalance(r.userId, Debit(r.userBalance, r.amount))
            /\ calls' = [calls EXCEPT ![c] =
                  [r EXCEPT !.pc = "pb_updateBalance", !.list = <<>>, !.debited = TRUE]]
    /\ UNCHANGED <<engineVars, games, bets, passes, nCalls, client>>

\* placeBet after `await updateUserBalance`: createBet.
PlaceBetDebited(c) ==
    /\ calls[c].pc = "pb_updateBalance"
    /\ LET r == calls[c] IN
       /\ bets' = Append(bets, NewBet(r.userId, r.gameFromDb, r.amount, r.autoCashOut))
       /\ calls' = [calls EXCEPT ![c] =
             [r EXCEPT !.pc = "pb_createBet", !.betId = Len(bets) + 1, !.created = TRUE]]
    /\ UNCHANGED <<engineVars, users, games, passes, nCalls, client>>

\* placeBet after `await createBet`: betPlaced is emitted with the player, the amount
\* and autoCashOut of the call and the roundId the engine holds now; the call succeeds.
PlaceBetCreated(c) ==
    /\ calls[c].pc = "pb_createBet"
    /\ calls' = [calls EXCEPT ![c] =
          Return([calls[c] EXCEPT !.events = @ + 1, !.eventRoundId = currentGame.roundId],
                 TRUE, "Bet placed successfully")]
    /\ UNCHANGED <<engineVars, users, games, bets, passes, nCalls, client>>

\* routes.ts after `await placeBet(...)` / `await manualCashOut(...)`: the response is sent.
Respond(c) ==
    /\ calls[c].pc = "done"
    /\ calls' = [calls EXCEPT ![c] = Idle]
    /\ UNCHANGED <<engineVars, users, games, bets, passes, nCalls, client>>

\* ------------------------------------------------------------- cashOutBet
\* cashOutBet(betId, userId, multiplier) from its call to `await getBetsByUserId`.
CashOutBet(r, betId, userId, multiplier) ==
    [r EXCEPT !.pc = "cob_getBets", !.betId = betId, !.userId = userId,
              !.multiplier = multiplier, !.cobBets = GetBetsByUserId(userId)]

\* TargetBet without the isActive test.
TargetBetAnyStatus(cobBets, betId) ==
    \E k \in 1..Len(cobBets) : cobBets[k] = betId

\* bet.find(b => b.id === betId && b.isActive) finds a bet.
TargetBet(cobBets, betId) ==
    \E k \in 1..Len(cobBets) : cobBets[k] = betId /\ bets[betId].isActive

\* The pending call `i` of calls ("call") or passes ("pass").
Task(w, i) == IF w = "call" THEN calls[i] ELSE passes[i]
SetTask(w, i, r) ==
    IF w = "call"
    THEN calls' = [calls EXCEPT ![i] = r] /\ UNCHANGED passes
    ELSE passes' = [passes EXCEPT ![i] = r] /\ UNCHANGED calls
Slots(w) == IF w = "call" THEN DOMAIN calls ELSE DOMAIN passes
SettledBy(r) == IF r.kind = "auto" THEN "auto" ELSE "manual"

\* cashOutBet after `await getBetsByUserId`: if the bet is still active, the win is
\* computed and updateBetCashOut is called; otherwise cashOutBet returns.
CashOutBetGotBets(w, i) ==
    /\ Task(w, i).pc = "cob_getBets"
    /\ LET r == Task(w, i) IN
       IF TargetBet(r.cobBets, r.betId)
       THEN LET winAmount == WinAmount(bets[r.betId].amount, r.multiplier) IN
            /\ bets' = [UpdateBetCashOut(r.betId, r.multiplier, winAmount, SettledBy(r))
                          EXCEPT ![r.betId].settles = @ + 1]
            /\ SetTask(w, i, [r EXCEPT !.pc = "cob_updateBet", !.winAmount = winAmount,
                                       !.cobBets = <<>>, !.settled = TRUE])
       ELSE /\ SetTask(w, i, [r EXCEPT !.pc = "cob_return", !.cobBets = <<>>])
            /\ UNCHANGED bets
    /\ UNCHANGED <<engineVars, users, games, nCalls, client>>

\* cashOutBet after `await updateBetCashOut`: getUser.
CashOutBetUpdated(w, i) ==
    /\ Task(w, i).pc = "cob_updateBet"
    /\ SetTask(w, i, [Task(w, i) EXCEPT !.pc = "cob_getUser",
                                       !.userFound = GetUser(Task(w, i).userId)])
    /\ UNCHANGED <<engineVars, users, games, bets, nCalls, client>>

\* cashOutBet after `await getUser`: the user's balance is read and updateUserBalance
\* is called with the sum; without a user, betCashedOut is emitted and cashOutBet returns.
CashOutBetGotUser(w, i) ==
    /\ Task(w, i).pc = "cob_getUser"
    /\ LET r == Task(w, i) IN
       IF r.userFound
       THEN /\ users' = UpdateUserBalance(r.userId, Credit(users[r.userId], r.winAmount))
            /\ bets' = [bets EXCEPT ![r.betId].credits = @ + 1,
                                     ![r.betId].paid = Credit(@, r.winAmount)]
            /\ SetTask(w, i, [r EXCEPT !.pc = "cob_updateBalance",
                                       !.credited = Credit(@, r.winAmount)])
       ELSE /\ SetTask(w, i, [r EXCEPT !.pc = "cob_return", !.events = @ + 1])
            /\ UNCHANGED <<users, bets>>
    /\ UNCHANGED <<engineVars, games, nCalls, client>>

\* cashOutBet after `await updateUserBalance`: betCashedOut is emitted, cashOutBet returns.
CashOutBetCredited(w, i) ==
    /\ Task(w, i).pc = "cob_updateBalance"
    /\ SetTask(w, i, [Task(w, i) EXCEPT !.pc = "cob_return", !.events = @ + 1])
    /\ UNCHANGED <<engineVars, users, games, bets, nCalls, client>>

\* ---------------------------------------------------- processAutoCashOuts
\* bet.autoCashOut && parseFloat(bet.autoCashOut) <= this.currentGame.multiplier
AutoCashOutDue(autoCashOut, multiplier) == autoCashOut # Null /\ autoCashOut <= multiplier

\* The multiplier processAutoCashOuts passes to cashOutBet for a due bet.
AutoCashOutMultiplier(autoCashOut, multiplier) == multiplier

\* The first position >= k of activeBets whose bet is due, 0 when there is none.
RECURSIVE NextDue(_, _, _)
NextDue(activeBets, k, multiplier) ==
    IF k > Len(activeBets) THEN 0
    ELSE IF AutoCashOutDue(bets[activeBets[k]].autoCashOut, multiplier) THEN k
    ELSE NextDue(activeBets, k + 1, multiplier)

\* processAutoCashOuts after `await getGameByRoundId`: getActiveBetsByGameId.
AutoGotGame(p) ==
    /\ passes[p].pc = "auto_getGame"
    /\ passes' = [passes EXCEPT ![p] =
          IF passes[p].gameFromDb = Null THEN Idle
          ELSE [passes[p] EXCEPT !.pc = "auto_getActive", !.idx = 0,
                                 !.list = GetActiveBetsByGameId(passes[p].gameFromDb)]]
    /\ UNCHANGED <<engineVars, users, games, bets, calls, nCalls, client>>

\* processAutoCashOuts after `await getActiveBetsByGameId` or after `await cashOutBet`:
\* the loop runs on to the next due bet and calls cashOutBet with the multiplier the
\* engine holds at that moment, or the list is done and the pass ends.
AutoLoop(p) ==
    /\ passes[p].pc \in {"auto_getActive", "cob_return"}
    /\ LET r == passes[p]
           k == NextDue(r.list, r.idx + 1, currentGame.multiplier)
       IN passes' = [passes EXCEPT ![p] =
            IF k = 0 THEN Idle
            ELSE LET bet == bets[r.list[k]] IN
                 CashOutBet([r EXCEPT !.idx = k], r.list[k], bet.userId,
                            AutoCashOutMultiplier(bet.autoCashOut, currentGame.multiplier))]
    /\ UNCHANGED <<engineVars, users, games, bets, calls, nCalls, client>>

\* ----------------------------------------------------------- manualCashOut
\* activeBets.find(bet => bet.userId === userId): its position, 0 when there is none.
RECURSIVE FindUserBet(_, _, _)
FindUserBet(activeBets, k, userId) ==
    IF k > Len(activeBets) THEN 0
    ELSE IF bets[activeBets[k]].userId = userId THEN k
    ELSE FindUserBet(activeBets, k + 1, userId)

\* CannotCashOut that refuses only a crashed round.
CannotCashOutCrashedOnly(phase) == phase = "crashed"

\* `this.currentGame.phase !== 'flying'` of manualCashOut.
CannotCashOut(phase) == phase # "flying"

\* A cashOut request arrives (routes.ts calls manualCashOut): the phase check, then
\* getGameByRoundId.
ManualCashOut(userId) ==
    /\ nCalls < MaxCalls
    /\ FreeSlot(calls) # 0
    /\ nCalls' = nCalls + 1
    /\ LET r == [Idle EXCEPT !.kind = "manualCashOut", !.userId = userId,
                             !.phaseAtCall = currentGame.phase]
       IN calls' = [calls EXCEPT ![FreeSlot(calls)] =
            IF CannotCashOut(currentGame.phase)
            THEN Return(r, FALSE, "Cannot cash out right now")
            ELSE [r EXCEPT !.pc = "mc_getGame",
                           !.gameFromDb = GetGameByRoundId(currentGame.roundId)]]
    /\ UNCHANGED <<engineVars, users, games, bets, passes, client>>

\* manualCashOut after `await getGameByRoundId`: getActiveBetsByGameId.
ManualGotGame(c) ==
    /\ calls[c].pc = "mc_getGame"
    /\ LET r == calls[c] IN
       calls' = [calls EXCEPT ![c] =
            IF r.gameFromDb = Null THEN Return(r, FALSE, "Game not found")
            ELSE [r EXCEPT !.pc = "mc_getActive",
                           !.list = GetActiveBetsByGameId(r.gameFromDb)]]
    /\ UNCHANGED <<engineVars, users, games, bets, passes, nCalls, client>>

\* manualCashOut after `await getActiveBetsByGameId`: the player's bet is looked up in
\* the list, the multiplier and the win to report are fixed, cashOutBet is called.
ManualGotActive(c) ==
    /\ calls[c].pc = "mc_getActive"
    /\ LET r == calls[c]
           k == FindUserBet(r.list, 1, r.userId)
       IN calls' = [calls EXCEPT ![c] =
            IF k = 0 THEN Return(r, FALSE, "No active bet found")
            ELSE CashOutBet([r EXCEPT !.list = <<>>, !.sawActive = TRUE,
                                      !.retWin = WinAmount(bets[r.list[k]].amount,
                                                           currentGame.multiplier)],
                            r.list[k], r.userId, currentGame.multiplier)]
    /\ UNCHANGED <<engineVars, users, games, bets, passes, nCalls, client>>

\* manualCashOut after `await cashOutBet`: it reports success with the win it computed.
ManualReturn(c) ==
    /\ calls[c].kind = "manualCashOut"
    /\ calls[c].pc = "cob_return"
    /\ calls' = [calls EXCEPT ![c] = Return(calls[c], TRUE, "Cashed out successfully")]
    /\ UNCHANGED <<engineVars, users, games, bets, passes, nCalls, client>>

\* ------------------------------------------------------------ specification
Next ==
    \/ StartNewRound
    \/ Horizon(MaxRounds) /\ StartCountdown
    \/ \E r, again \in Randoms : CountdownTick(r, again)
    \/ \E delay \in TickDelays : FlyingTick(delay)
    \/ CrashGotGame
    \/ CrashUpdatedGame
    \/ CrashSweep
    \/ \E userId \in UserIds, amount \in Amounts, autoCashOut \in AutoCashOuts :
          PlaceBet(userId, amount, autoCashOut)
    \/ \E c \in DOMAIN calls : PlaceBetGotUser(c)
    \/ \E c \in DOMAIN calls : PlaceBetGotGame(c)
    \/ \E c \in DOMAIN calls : PlaceBetGotBets(c)
    \/ \E c \in DOMAIN calls : PlaceBetDebited(c)
    \/ \E c \in DOMAIN calls : PlaceBetCreated(c)
    \/ \E userId \in UserIds : ManualCashOut(userId)
    \/ \E c \in DOMAIN calls : ManualGotGame(c)
    \/ \E c \in DOMAIN calls : ManualGotActive(c)
    \/ \E c \in DOMAIN calls : ManualReturn(c)
    \/ \E c \in DOMAIN calls : Respond(c)
    \/ \E w \in {"call", "pass"} : \E i \in Slots(w) : CashOutBetGotBets(w, i)
    \/ \E w \in {"call", "pass"} : \E i \in Slots(w) : CashOutBetUpdated(w, i)
    \/ \E w \in {"call", "pass"} : \E i \in Slots(w) : CashOutBetGotUser(w, i)
    \/ \E w \in {"call", "pass"} : \E i \in Slots(w) : CashOutBetCredited(w, i)
    \/ \E p \in DOMAIN passes : AutoGotGame(p)
    \/ \E p \in DOMAIN passes : AutoLoop(p)

Spec == Init /\ [][Next]_vars

SpecSettle == InitSettle /\ [][Next]_vars

\* The engine on its own: its timers and its own calls, no client requests.
InitRounds == InitWith(0, MaxPasses)

NextRounds ==
    \/ StartNewRound
    \/ Horizon(LifeRounds) /\ StartCountdown
    \/ \E r, again \in LifeRandoms : CountdownTick(r, again)
    \/ \E delay \in TickDelays : FlyingTick(delay)
    \/ CrashGotGame
    \/ CrashUpdatedGame
    \/ CrashSweep
    \/ \E p \in DOMAIN passes : AutoGotGame(p)
    \/ \E p \in DOMAIN passes : AutoLoop(p)

SpecRounds == InitRounds /\ [][NextRounds]_vars

\* ------------------------------------------------------- storage failures
\* A call of the store that fails: it changes nothing and its promise rejects, so
\* placeBet rejects at that await.

\* placeBet after `await getBetsByUserId`, the one-bet check passed: updateUserBalance fails.
UpdateUserBalanceFails(c) ==
    /\ calls[c].pc = "pb_getBets"
    /\ ~HasActiveBet(calls[c].list, calls[c].gameFromDb)
    /\ calls' = [calls EXCEPT ![c] = [calls[c] EXCEPT !.pc = "threw", !.list = <<>>]]
    /\ UNCHANGED <<engineVars, users, games, bets, passes, nCalls, client>>

\* placeBet after `await updateUserBalance`: createBet fails.
CreateBetFails(c) ==
    /\ calls[c].pc = "pb_updateBalance"
    /\ calls' = [calls EXCEPT ![c] = [calls[c] EXCEPT !.pc = "threw"]]
    /\ UNCHANGED <<engineVars, users, games, bets, passes, nCalls, client>>

\* routes.ts: the handler's catch block logs the error; no response is sent.
Caught(c) ==
    /\ calls[c].pc = "threw"
    /\ calls' = [calls EXCEPT ![c] = Idle]
    /\ UNCHANGED <<engineVars, users, games, bets, passes, nCalls, client>>

\* startNewRound whose createGame rejects: the counter and the engine's game are set,
\* no record is stored, and startNewRound rejects at its await with nothing to catch
\* it: no snapshot is emitted, no countdown is started, nothing calls it again.
StartNewRoundFails ==
    /\ round.pc = "timeout"
    /\ \E salt \in Salts :
        LET roundId == NextRoundId(roundIdCounter) IN
        /\ roundIdCounter' = roundId
        /\ currentGame' = NewGameState(roundId, salt)
    /\ round' = [RoundIdle EXCEPT !.pc = "threw_createGame"]
    /\ UNCHANGED <<countdownTimer, gameTimer, gameEndTime, now, crashPoint, replayCrashPoint,
                   emitted, users, games, bets, calls, passes, nCalls, client>>

\* crashGame at one of its awaits: the store call it waits for or makes next
\* (getGameByRoundId, updateGameCrash, getActiveBetsByGameId, an updateBetCashOut of
\* the sweep) rejects.  crashGame rejects with nothing to catch it: the events are not
\* emitted and the 3 s timeout is not set.
CrashGameFails ==
    /\ \/ round.pc \in {"crash_getGame", "crash_updateGame"}
       \/ round.pc = "crash_getActive" /\ round.idx <= Len(round.activeBets)
    /\ round' = [RoundIdle EXCEPT !.pc = "threw_crashGame"]
    /\ UNCHANGED <<currentGame, countdownTimer, gameTimer, roundIdCounter, gameEndTime, now,
                   crashPoint, replayCrashPoint, emitted, users, games, bets, calls, passes,
                   nCalls, client>>

\* cashOutBet after `await updateBetCashOut` or after `await getUser`: the getUser or
\* the updateUserBalance it calls rejects, and cashOutBet rejects at that await.  Under
\* manualCashOut the rejection reaches the handler's catch block; under
\* processAutoCashOuts nothing catches it and the pass is over.
CashOutBetFails(w, i) ==
    /\ \/ Task(w, i).pc = "cob_updateBet"
       \/ Task(w, i).pc = "cob_getUser" /\ Task(w, i).userFound
    /\ SetTask(w, i, IF w = "call" THEN [Task(w, i) EXCEPT !.pc = "threw"] ELSE Idle)
    /\ UNCHANGED <<engineVars, users, games, bets, nCalls, client>>

NextFail ==
    \/ Next
    \/ \E c \in DOMAIN calls : UpdateUserBalanceFails(c)
    \/ \E c \in DOMAIN calls : CreateBetFails(c)
    \/ \E c \in DOMAIN calls : Caught(c)
    \/ StartNewRoundFails
    \/ CrashGameFails
    \/ \E w \in {"call", "pass"} : \E i \in Slots(w) : CashOutBetFails(w, i)

SpecFail == Init /\ [][NextFail]_vars

\* ------------------------------------------------------- requests of any client
\* message.amount of a placeBet request: "abc", "100".
RequestAmounts == {NaN, 10000}

\* A placeBet request on a connection that has not authenticated (ws.userId is not
\* set): placeBet is not called, the handler answers betPlaced with success false.
PlaceBetNotAuthenticated(amount) ==
    /\ nCalls < MaxCalls
    /\ FreeSlot(calls) # 0
    /\ nCalls' = nCalls + 1
    /\ calls' = [calls EXCEPT ![FreeSlot(calls)] =
          Return([Idle EXCEPT !.kind = "placeBet", !.amount = amount,
                              !.phaseAtCall = currentGame.phase],
                 FALSE, "Not authenticated")]
    /\ UNCHANGED <<engineVars, users, games, bets, passes, client>>

\* A cashOut request on a connection that has not authenticated: the `if (ws.userId)`
\* of the case has no else branch, so the handler reaches `break` having sent nothing.
CashOutNotAuthenticated ==
    /\ nCalls < MaxCalls
    /\ FreeSlot(calls) # 0
    /\ nCalls' = nCalls + 1
    /\ calls' = [calls EXCEPT ![FreeSlot(calls)] =
          [Idle EXCEPT !.kind = "manualCashOut", !.pc = "break",
                       !.phaseAtCall = currentGame.phase]]
    /\ UNCHANGED <<engineVars, users, games, bets, passes, client>>

\* The handler of a request that ended at `break` without a response is over.
HandlerOver(c) ==
    /\ calls[c].pc = "break"
    /\ calls' = [calls EXCEPT ![c] = Idle]
    /\ UNCHANGED <<engineVars, users, games, bets, passes, nCalls, client>>

\* The engine with requests as routes.ts can receive them: from connections that
\* have or have not authenticated, the amount any string.
NextRequests ==
    \/ Next
    \/ \E userId \in UserIds, amount \in RequestAmounts, autoCashOut \in AutoCashOuts :
          PlaceBet(userId, amount, autoCashOut)
    \/ \E amount \in RequestAmounts : PlaceBetNotAuthenticated(amount)
    \/ CashOutNotAuthenticated
    \/ \E c \in DOMAIN calls : HandlerOver(c)

SpecRequests == InitSettle /\ [][NextRequests]_vars

\* ------------------------------------------------------------ useWebSocket
\* ReconnectDelay growing by one second per attempt.
ReconnectDelayLinear(attempts) == (attempts + 1) * 1000

\* Math.pow(2, reconnectAttemptsRef.current) * 1000
ReconnectDelay(attempts) == (2 ^ attempts) * 1000

\* reconnectAttemptsRef.current < 5
MayReconnect(attempts) == attempts < 5

\* ws.onopen: the socket is connected, the attempts start again from 0.
ClientOpen ==
    /\ client.socket = "connecting"
    /\ client.opens < MaxOpens
    /\ client' = [client EXCEPT !.socket = "open", !.isConnected = TRUE,
                                !.reconnectAttempts = 0,
                                !.opens = @ + 1, !.closes = 0, !.delays = <<>>]
    /\ UNCHANGED serverVars

\* ws.onerror: only the connected flag is cleared; the browser closes the socket
\* after it.
ClientError ==
    /\ client.socket \in {"connecting", "open"}
    /\ client' = [client EXCEPT !.isConnected = FALSE]
    /\ UNCHANGED serverVars

\* ws.onclose, of a socket that was open or that never opened: while fewer than 5
\* attempts were made, a reconnect is scheduled with setTimeout.
ClientClose ==
    /\ client.socket \in {"connecting", "open"}
    /\ client' =
          IF MayReconnect(client.reconnectAttempts)
          THEN [client EXCEPT !.socket = "closed", !.isConnected = FALSE,
                              !.reconnectTimeout = ReconnectDelay(client.reconnectAttempts),
                              !.closes = @ + 1,
                              !.delays = Append(@, ReconnectDelay(client.reconnectAttempts))]
          ELSE [client EXCEPT !.socket = "closed", !.isConnected = FALSE,
                              !.closes = @ + 1]
    /\ UNCHANGED serverVars

\* The timeout set by onclose fires: the attempt is counted and connect() creates
\* the next socket.
ClientReconnect ==
    /\ client.reconnectTimeout # Null
    /\ client' = [client EXCEPT !.reconnectAttempts = @ + 1, !.socket = "connecting",
                                !.reconnectTimeout = Null]
    /\ UNCHANGED serverVars

\* The effect's cleanup when the component unmounts: a pending timeout is cleared.
\* `socket` is the state of the render that ran the effect, which is null, so the
\* socket is not closed.
ClientUnmount ==
    /\ client.mounted
    /\ client' = [client EXCEPT !.mounted = FALSE, !.reconnectTimeout = Null]
    /\ UNCHANGED serverVars

\* The hook on its own: its socket opens, fails and closes in any order.
NextClient ==
    \/ ClientOpen
    \/ ClientError
    \/ ClientClose
    \/ ClientReconnect
    \/ ClientUnmount

SpecClient == InitRounds /\ [][NextClient]_vars

\* ------------------------------------------------------ one thing at a time
\* No request handler and no processAutoCashOuts call is pending.
Quiet ==
    /\ \A c \in DOMAIN calls : calls[c].kind = "none"
    /\ \A p \in DOMAIN passes : passes[p].kind = "none"

\* The engine with a store that never fails, every request and every timer callback
\* starting only when the requests and passes before it are over.  What one callback
\* starts itself stays as the code has it: the tick that reaches the end time calls
\* processAutoCashOuts, does not await it, and calls crashGame.
NextSerial ==
    \/ StartNewRound
    \/ Horizon(MaxRounds) /\ StartCountdown
    \/ Quiet /\ \E r, again \in Randoms : CountdownTick(r, again)
    \/ Quiet /\ \E delay \in TickDelays : FlyingTick(delay)
    \/ CrashGotGame
    \/ CrashUpdatedGame
    \/ CrashSweep
    \/ Quiet /\ \E userId \in UserIds, amount \in Amounts, autoCashOut \in AutoCashOuts :
                  PlaceBet(userId, amount, autoCashOut)
    \/ \E c \in DOMAIN calls : PlaceBetGotUser(c)
    \/ \E c \in DOMAIN calls : PlaceBetGotGame(c)
    \/ \E c \in DOMAIN calls : PlaceBetGotBets(c)
    \/ \E c \in DOMAIN calls : PlaceBetDebited(c)
    \/ \E c \in DOMAIN calls : PlaceBetCreated(c)
    \/ Quiet /\ \E userId \in UserIds : ManualCashOut(userId)
    \/ \E c \in DOMAIN calls : ManualGotGame(c)
    \/ \E c \in DOMAIN calls : ManualGotActive(c)
    \/ \E c \in DOMAIN calls : ManualReturn(c)
    \/ \E c \in DOMAIN calls : Respond(c)
    \/ \E w \in {"call", "pass"} : \E i \in Slots(w) : CashOutBetGotBets(w, i)
    \/ \E w \in {"call", "pass"} : \E i \in Slots(w) : CashOutBetUpdated(w, i)
    \/ \E w \in {"call", "pass"} : \E i \in Slots(w) : CashOutBetGotUser(w, i)
    \/ \E w \in {"call", "pass"} : \E i \in Slots(w) : CashOutBetCredited(w, i)
    \/ \E p \in DOMAIN passes : AutoGotGame(p)
    \/ \E p \in DOMAIN passes : AutoLoop(p)

SpecSerial == Init /\ [][NextSerial]_vars

\* The engine on its own with a store whose calls can reject.  The timers fire and
\* the pending continuations run: the steps of the engine are taken as long as one
\* of them can be.
NextRoundsFail ==
    \/ NextRounds
    \/ StartNewRoundFails
    \/ CrashGameFails

SpecRoundsFail == InitRounds /\ [][NextRoundsFail]_vars /\ WF_vars(NextRounds)

\* The engine on its own, Math.random() returning 0 among its draws.
NextFlight ==
    \/ StartNewRound
    \/ Horizon(LifeRounds) /\ StartCountdown
    \/ \E r, again \in FlightRandoms : CountdownTick(r, again)
    \/ \E delay \in TickDelays : FlyingTick(delay)
    \/ CrashGotGame
    \/ CrashUpdatedGame
    \/ CrashSweep
    \/ \E p \in DOMAIN passes : AutoGotGame(p)
    \/ \E p \in DOMAIN passes : AutoLoop(p)

SpecFlight == InitRounds /\ [][NextFlight]_vars /\ WF_vars(NextFlight)

\* The engine on its own, a small draw among those of generateCrashPoint.
NextDeadline ==
    \/ StartNewRound
    \/ Horizon(LifeRounds) /\ StartCountdown
    \/ \E r, again \in DeadlineRandoms : CountdownTick(r, again)
    \/ \E delay \in TickDelays : FlyingTick(delay)
    \/ CrashGotGame
    \/ CrashUpdatedGame
    \/ CrashSweep
    \/ \E p \in DOMAIN passes : AutoGotGame(p)
    \/ \E p \in DOMAIN passes : AutoLoop(p)

SpecDeadline == InitRounds /\ [][NextDeadline]_vars

\* ------------------------------------------------------------------ claims
Calls == {calls[c] : c \in DOMAIN calls}
Tasks == Calls \cup {passes[p] : p \in DOMAIN passes}
Returned(kind) == {r \in Calls : r.kind = kind /\ r.pc = "done"}

RECURSIVE SumAmounts(_)
\* The amounts of the bets k..Len(bets).
SumAmounts(k) == IF k > Len(bets) THEN 0 ELSE bets[k].amount + SumAmounts(k + 1)

RECURSIVE SumPaid(_)
\* What cashOutBet credited for the bets k..Len(bets).
SumPaid(k) == IF k > Len(bets) THEN 0 ELSE bets[k].paid + SumPaid(k + 1)
\* The sum of the winAmount recorded on bets k.., a bet without one counting 0.
RECURSIVE SumWinAmounts(_)
SumWinAmounts(k) ==
    IF k > Len(bets) THEN 0
    ELSE (IF bets[k].winAmount = Null THEN 0 ELSE bets[k].winAmount) + SumWinAmounts(k + 1)

\* C1: under any interleaving of manual cash-outs, overlapping automatic passes and
\* the crash sweep, cashOutBet writes a cash-out to a bet at most once and credits
\* the player for it at most once.
C1_SettledAtMostOnce ==
    \A b \in 1..Len(bets) : bets[b].settles <= 1 /\ bets[b].credits <= 1

\* C1 witness: a bet has been paid once and a second cashOutBet for it found it settled.
C1_Witness ==
    \E r \in Tasks :
        /\ r.pc = "cob_return"
        /\ ~r.settled
        /\ bets[r.betId].credits = 1

\* C2: a manualCashOut whose bet the automatic pass settled before its own
\* cashOutBet got to it returns a failure, never success.
C2_LoserIsRejected ==
    \A r \in Returned("manualCashOut") :
        (r.success /\ ~r.settled) => bets[r.betId].settledBy # "auto"

\* C3: a player has at most one active bet per round.
C3_OneActiveBetPerRound ==
    \A a, b \in 1..Len(bets) :
        (/\ bets[a].userId = bets[b].userId
         /\ bets[a].gameId = bets[b].gameId
         /\ bets[a].isActive /\ bets[b].isActive) => a = b

\* C4: a placeBet called outside waiting, or with an amount <= 0, or with an amount
\* above the balance it read, or that found an active bet of the player in the round,
\* returns a failure, has changed no balance, created no bet and emitted no betPlaced;
\* above the balance the reason is 'Insufficient balance'.
C4_PlaceBetRejects ==
    \A r \in Returned("placeBet") :
        LET wrongPhase == r.phaseAtCall # "waiting"
            checked    == ~wrongPhase /\ r.userFound
            badAmount  == checked /\ r.amount <= 0
            tooMuch    == checked /\ r.amount > r.userBalance
        IN  /\ (wrongPhase \/ badAmount \/ tooMuch \/ r.sawActive) =>
                 (~r.success /\ r.message # "" /\ ~r.debited /\ ~r.created /\ r.events = 0)
            /\ (tooMuch /\ ~badAmount) => r.message = "Insufficient balance"

\* C4 witness: a placeBet for more than the balance has returned.
C4_Witness ==
    \E r \in Returned("placeBet") :
        /\ r.phaseAtCall = "waiting"
        /\ r.amount > r.userBalance
        /\ r.message = "Insufficient balance"
        /\ users[r.userId] = r.userBalance

\* C5: a bet is created only while the phase is waiting, and for the game of the
\* round that is current at that moment.
C5_BetsCreatedInWaiting ==
    [][Len(bets') > Len(bets) =>
          /\ currentGame.phase = "waiting"
          /\ bets'[Len(bets')].gameId = GetGameByRoundId(currentGame.roundId)]_vars

\* C6: a placeBet that failed at updateUserBalance or at createBet has neither
\* debited the balance nor created a bet.
C6_PlacementAtomic ==
    \A r \in Calls : (r.kind = "placeBet" /\ r.pc = "threw") => (~r.debited /\ ~r.created)

\* C7: whenever no placeBet stands between its debit and its createBet, the balance is
\* the initial balance minus the amounts of the player's bets plus the payouts credited.
C7_NoLostUpdate ==
    (\A r \in Calls : r.pc # "pb_updateBalance") =>
        users[DefaultUser] = DefaultBalance - SumAmounts(1) + SumPaid(1)

\* C8: manualCashOut succeeds only if the phase was flying at the call and the list of
\* active bets it read held a bet of the player; a call that fails gives a reason and
\* has settled no bet, credited nothing and emitted no betCashedOut.
C8_ManualCashOutGuard ==
    \A r \in Returned("manualCashOut") :
        /\ r.success =>
              /\ r.phaseAtCall = "flying"
              /\ r.betId \in 1..Len(bets)
              /\ bets[r.betId].userId = r.userId
              /\ bets[r.betId].gameId = r.gameFromDb
        /\ r.phaseAtCall # "flying" => ~r.success
        /\ ~r.success => (r.message # "" /\ ~r.settled /\ r.credited = 0 /\ r.events = 0)

\* C8 witness: a manualCashOut called while a bet waits for the flight has been refused.
C8_Witness ==
    \E r \in Returned("manualCashOut") :
        /\ r.phaseAtCall = "waiting"
        /\ ~r.success
        /\ \E b \in 1..Len(bets) : bets[b].userId = r.userId /\ bets[b].isActive

\* C9: a manualCashOut that reports success has credited the player exactly the
\* winAmount it returns and emitted exactly one betCashedOut.
C9_ReturnedWinIsCredited ==
    \A r \in Returned("manualCashOut") :
        r.success => (r.credited = r.retWin /\ r.events = 1)

\* C10: a bet settled by the automatic pass has its autoCashOut as cash-out
\* multiplier and amount * autoCashOut as payout.
C10_AutoSettlesAtThreshold ==
    \A b \in 1..Len(bets) :
        bets[b].settledBy = "auto" =>
            /\ bets[b].cashOutAt = bets[b].autoCashOut
            /\ bets[b].winAmount = WinAmount(bets[b].amount, bets[b].autoCashOut)

\* C11: a bet that is settled (inactive) keeps its cash-out multiplier and its payout in
\* every later step.
C11_SettledBetIsFixed ==
    [][\A b \in 1..Len(bets) :
          ~bets[b].isActive =>
              /\ bets'[b].cashOutAt = bets[b].cashOutAt
              /\ bets'[b].winAmount = bets[b].winAmount]_vars

\* C12: a bet that is settled while its round is not flying (at the crash or after it)
\* is settled as a loss: payout 0.00.
C12_SettledAtCrashIsLoss ==
    [][\A b \in 1..Len(bets) :
          (/\ bets[b].isActive
           /\ ~bets'[b].isActive
           /\ currentGame.phase # "flying") => bets'[b].winAmount = 0]_vars

\* C13: every active bet belongs to the game of the current round.
C13_NoActiveBetOfEarlierRound ==
    \A b \in 1..Len(bets) :
        bets[b].isActive => bets[b].gameId = GetGameByRoundId(currentGame.roundId)

C15_MultiplierMonotoneThenFrozen ==
    [][LET g == currentGame
           h == currentGame'
           s == emitted.gameStateUpdate
           t == emitted'.gameStateUpdate
       IN  /\ h.multiplier >= 100
           /\ h.roundId = g.roundId =>
                 /\ (g.phase = "waiting" /\ h.phase = "flying") => h.multiplier = 100
                 /\ g.phase = "flying" => h.multiplier >= g.multiplier
                 /\ g.phase = "crashed" => (h.phase = "crashed" /\ h.multiplier = g.multiplier)
           /\ (s.phase = "flying" /\ t.phase \in {"flying", "crashed"}) =>
                 t.multiplier >= s.multiplier]_vars

\* C15 witness: a round that flew for several ticks has crashed and been swept.
C15_Witness ==
    /\ currentGame.phase = "crashed"
    /\ currentGame.multiplier >= 115
    /\ emitted.gameStateUpdate.phase = "crashed"
    /\ emitted.gameStateUpdate.multiplier = currentGame.multiplier

\* C16: a round starts waiting with countdown 10; each countdown tick takes 1 off; the
\* phase stays waiting until the tick that takes the countdown from 1 to 0, and that
\* tick makes it flying with multiplier 1.00.
C16_CountdownTenTicks ==
    [][LET g == currentGame
           h == currentGame'
       IN  /\ h.roundId # g.roundId => (h.phase = "waiting" /\ h.countdown = 10)
           /\ (g.phase = "waiting" /\ h # g /\ h.roundId = g.roundId) =>
                 /\ h.countdown = g.countdown - 1
                 /\ h.phase = IF g.countdown = 1 THEN "flying" ELSE "waiting"
                 /\ h.phase = "flying" => h.multiplier = 100]_vars

\* C16 witness: the tenth tick has made the round flying.
C16_Witness ==
    /\ currentGame.phase = "flying"
    /\ currentGame.countdown = 0
    /\ currentGame.multiplier = 100
    /\ emitted.gameStateUpdate.phase = "flying"
    /\ now = currentGame.startTime

\* C17: the crash point is a function of the round's salt and roundId: running the same
\* round (same roundId, same salt) again gives the same crash point.
C17_CrashPointDeterministic ==
    replayCrashPoint = crashPoint

C19_CrashesAtCrashPoint ==
    /\ crashPoint # Null => crashPoint >= 100
    /\ \A g \in 1..Len(games) :
          (games[g].crashed /\ games[g].roundId = currentGame.roundId) =>
              games[g].multiplier = crashPoint
    /\ emitted.gameCrashed.roundId = currentGame.roundId =>
          emitted.gameCrashed.crashPoint = crashPoint

\* C20: no emitted payload carries a salt, and a game record holds a salt only if its
\* round has crashed.
C20_SaltHiddenUntilCrash ==
    /\ "salt" \notin DOMAIN emitted.gameStateUpdate
    /\ DOMAIN emitted.gameCrashed = {"roundId", "crashPoint"}
    /\ \A g \in 1..Len(games) :
          games[g].salt # "" =>
              \/ games[g].roundId < currentGame.roundId
              \/ games[g].roundId = currentGame.roundId /\ currentGame.phase = "crashed"

\* C20 witness: the current round has crashed and its salt is stored with its record.
C20_Witness ==
    /\ currentGame.phase = "crashed"
    /\ emitted.gameStateUpdate.phase = "crashed"
    /\ \E g \in 1..Len(games) :
          games[g].roundId = currentGame.roundId /\ games[g].salt = currentGame.salt

\* C21: a round whose createGame is pending or has failed is waiting with no countdown
\* and no flight timer running, a round without a stored game record never flies, every
\* bet belongs to a stored game record, and a placeBet that found no game record for the
\* round has failed ('Game not found' when it got that far) without debit, bet or event.
C21_UnpersistedRoundTakesNoBet ==
    /\ round.pc \in {"createGame", "threw_createGame"} =>
          (currentGame.phase = "waiting" /\ ~countdownTimer /\ ~gameTimer)
    /\ GetGameByRoundId(currentGame.roundId) = Null =>
          (currentGame.phase = "waiting" /\ ~countdownTimer /\ ~gameTimer)
    /\ \A b \in 1..Len(bets) : bets[b].gameId \in 1..Len(games)
    /\ \A r \in Returned("placeBet") :
          r.gameFromDb = Null =>
              /\ ~r.success /\ ~r.debited /\ ~r.created /\ r.events = 0
              /\ (/\ r.phaseAtCall = "waiting" /\ r.userFound
                  /\ r.amount > 0 /\ r.amount <= r.userBalance) =>
                     r.message = "Game not found"

\* C21 witness: the createGame of the round has failed and a placeBet for the round has
\* been refused with 'Game not found'.
C21_Witness ==
    /\ round.pc = "threw_createGame"
    /\ currentGame.phase = "waiting"
    /\ GetGameByRoundId(currentGame.roundId) = Null
    /\ \E r \in Returned("placeBet") :
          /\ r.message = "Game not found"
          /\ users[r.userId] = r.userBalance

\* C22: once the createGame of a new round has failed, a waiting round with a stored
\* game record and a running countdown eventually exists.
C22_CreationRetried ==
    (round.pc = "threw_createGame") ~>
        (/\ currentGame.phase = "waiting"
         /\ countdownTimer
         /\ GetGameByRoundId(currentGame.roundId) # Null)

\* C23: every round that is flying is eventually crashed, whatever generateCrashPoint
\* returned for it.
C23_FlightEnds ==
    \A id \in (FirstRoundIdCounter + 1)..(FirstRoundIdCounter + LifeRounds + 1) :
        (currentGame.roundId = id /\ currentGame.phase = "flying")
            ~> (currentGame.roundId = id /\ currentGame.phase = "crashed")

\* C24: after every crashed round a new round in waiting eventually exists, also when
\* a store call of crashGame fails.
C24_RoundLoopGoesOn ==
    \A id \in (FirstRoundIdCounter + 1)..(FirstRoundIdCounter + LifeRounds + 1) :
        (currentGame.roundId = id /\ currentGame.phase = "crashed")
            ~> (currentGame.roundId > id /\ currentGame.phase = "waiting")

\* C25: the game records carry strictly increasing roundIds in the order of their
\* creation (so no two share one), and a newly created round has a roundId above that
\* of every round created before it.
C25_RoundIdsUniqueIncreasing ==
    [][/\ \A i, j \in 1..Len(games') : i < j => games'[i].roundId < games'[j].roundId
       /\ currentGame'.roundId # currentGame.roundId =>
             /\ currentGame'.roundId > currentGame.roundId
             /\ currentGame'.roundId = roundIdCounter'
             /\ \A g \in 1..Len(games) : games[g].roundId < currentGame'.roundId]_vars

\* C25 witness: the third round has been created.
C25_Witness ==
    /\ Len(games) = 3
    /\ games[3].roundId = currentGame.roundId
    /\ games[3].roundId = games[1].roundId + 2

\* C26: gameCrashed is emitted at most once per round; the step that emits it follows
\* the round's flying snapshots and emits gameCrashed for the current round, then the
\* crashed snapshot; and the first snapshot of a round comes after the gameCrashed of
\* the round before it.
C26_GameCrashedOncePerRound ==
    [][LET s  == emitted.gameStateUpdate
           t  == emitted'.gameStateUpdate
           cr == emitted'.crashedRounds
       IN  /\ \A i, j \in 1..Len(cr) : i < j => cr[i] < cr[j]
           /\ cr # emitted.crashedRounds =>
                 /\ cr = Append(emitted.crashedRounds, currentGame.roundId)
                 /\ s.phase = "flying" /\ s.roundId = currentGame.roundId
                 /\ emitted'.events = <<"gameCrashed", "gameStateUpdate">>
                 /\ emitted'.gameCrashed.roundId = currentGame.roundId
                 /\ t.phase = "crashed" /\ t.roundId = currentGame.roundId
           /\ (s.phase # "none" /\ t.phase # "none" /\ t.roundId # s.roundId) =>
                 /\ s.phase = "crashed"
                 /\ cr # <<>>
                 /\ cr[Len(cr)] = s.roundId
                 /\ cr = emitted.crashedRounds]_vars

\* C26 witness: two rounds have crashed, each with its gameCrashed.
C26_Witness ==
    /\ emitted.crashedRounds = <<FirstRoundIdCounter + 1, FirstRoundIdCounter + 2>>
    /\ emitted.events = <<"gameCrashed", "gameStateUpdate">>
    /\ emitted.gameCrashed.roundId = FirstRoundIdCounter + 2
    /\ currentGame.phase = "crashed"

\* C27: a bet that is settled with a positive payout, and on which no cashOutBet is
\* still at work, has had that payout credited to its player.
C27_NoHalfSettledBet ==
    \A b \in 1..Len(bets) :
        (/\ ~bets[b].isActive
         /\ bets[b].winAmount > 0
         /\ \A r \in Tasks : ~(r.betId = b /\ r.pc \in {"cob_updateBet", "cob_getUser"})) =>
            bets[b].paid = bets[b].winAmount

\* C28: a bet settled by the automatic pass has a threshold, and is settled at a
\* multiplier that has reached it, with a positive payout; and a bet that was active
\* with its threshold reached at a flight tick is not settled by the crash sweep.
C28_DueBetIsAutoSettled ==
    /\ \A b \in 1..Len(bets) :
          bets[b].settledBy = "auto" =>
              /\ bets[b].autoCashOut # Null
              /\ bets[b].cashOutAt >= bets[b].autoCashOut
              /\ bets[b].winAmount > 0
    /\ \A b \in round.dueAtCrash : bets[b].settledBy # "sweep"

\* C29: a countdown tick (the one that starts the flight included) and a flight tick
\* each emit one event, the gameStateUpdate snapshot of the game as the tick left it.
C29_EveryTickEmitsOneSnapshot ==
    [][/\ (\E r, again \in LifeRandoms : CountdownTick(r, again)) =>
             /\ emitted'.events = <<"gameStateUpdate">>
             /\ emitted'.gameStateUpdate = GetPublicGameState(currentGame')
       /\ (currentGame.phase = "flying" /\ \E delay \in TickDelays : FlyingTick(delay)) =>
             /\ emitted'.events = <<"gameStateUpdate">>
             /\ emitted'.gameStateUpdate =
                    GetPublicGameState([currentGame' EXCEPT !.phase = "flying"])]_vars

\* C29 witness: a flight tick has emitted its snapshot.
C29_Witness ==
    /\ currentGame.phase = "flying"
    /\ now > currentGame.startTime
    /\ emitted.events = <<"gameStateUpdate">>
    /\ emitted.gameStateUpdate = GetPublicGameState(currentGame)

\* C30: during a flight the interval's callback can run whenever a slot is left for
\* the call it makes, pending processAutoCashOuts calls or not, and the multiplier is
\* the one for the time elapsed since startTime.
C30_TickDoesNotWaitForPasses ==
    /\ (gameTimer /\ FreeSlot(passes) # 0) => ENABLED (\E delay \in TickDelays : FlyingTick(delay))
    /\ currentGame.phase \in {"flying", "crashed"} =>
          currentGame.multiplier = RoundMultiplier(now - currentGame.startTime)

\* C30 witness: a tick has set the multiplier, emitted its snapshot and called crashGame
\* while the processAutoCashOuts call of the tick before it was pending.
C30_Witness ==
    /\ passes[1].kind = "auto" /\ passes[1].pc = "auto_getActive"
    /\ passes[2].kind = "auto" /\ passes[2].pc = "auto_getGame"
    /\ now - currentGame.startTime = 1000
    /\ currentGame.multiplier = 110
    /\ emitted.gameStateUpdate.multiplier = 110
    /\ round.pc = "crash_getGame"

\* C31: the countdown interval is set only while the phase is waiting and the flight
\* interval only while it is flying, never both; an interval is created only when the
\* one before it has been cleared; and a step that counts down, advances the clock or
\* moves the multiplier starts in the phase of its timer, in the round it belongs to.
C31_TimersFollowPhase ==
    [][LET g == currentGame
           h == currentGame'
       IN  /\ countdownTimer' => (h.phase = "waiting" /\ ~gameTimer')
           /\ gameTimer' => (h.phase = "flying" /\ ~countdownTimer')
           /\ (countdownTimer' /\ ~countdownTimer) => (~gameTimer /\ g.phase = "waiting")
           /\ StartCountdown => ~countdownTimer
           /\ (gameTimer' /\ ~gameTimer) => (countdownTimer /\ g.phase = "waiting")
           /\ (h.roundId = g.roundId /\ h.countdown # g.countdown) =>
                 (countdownTimer /\ g.phase = "waiting")
           /\ (now' # now \/ (h.roundId = g.roundId /\ h.multiplier # g.multiplier)) =>
                 (gameTimer /\ g.phase = "flying")
           /\ (emitted'.gameStateUpdate # emitted.gameStateUpdate
                  /\ emitted'.events = <<"gameStateUpdate">>) =>
                 (countdownTimer \/ gameTimer \/ round.pc = "createGame")]_vars

\* C31 witness: in the second round the countdown interval has been cleared and the
\* flight interval is running.
C31_Witness ==
    /\ currentGame.roundId = FirstRoundIdCounter + 2
    /\ currentGame.phase = "flying"
    /\ gameTimer
    /\ ~countdownTimer
    /\ now > currentGame.startTime

\* C32: while a round is flying, the crash deadline fixed when the flight started lies
\* between startTime + MIN_GAME_TIME and startTime + MAX_GAME_TIME.
C32_FlightWithinGameTime ==
    currentGame.phase = "flying" =>
        /\ gameEndTime >= currentGame.startTime + MIN_GAME_TIME
        /\ gameEndTime <= currentGame.startTime + MAX_GAME_TIME

\* C33: a placeBet that succeeded has emitted one betPlaced, whose roundId is that of
\* the round its bet belongs to; a placeBet that failed has emitted none.
C33_OneBetPlacedPerAcceptedBet ==
    \A r \in Returned("placeBet") :
        /\ r.success =>
              /\ r.events = 1
              /\ r.created
              /\ r.eventRoundId = games[bets[r.betId].gameId].roundId
        /\ ~r.success => (r.events = 0 /\ r.eventRoundId = Null)

\* C37: a step settles a bet with a positive payout, or adds to a balance, only while
\* the round of the bet is flying; and a positive payout of a crashed round has a
\* cash-out multiplier that is at most the round's crash multiplier.
C37_NoPayoutAfterCrash ==
    [][/\ \A b \in 1..Len(bets) :
             (bets'[b].winAmount > 0 /\ bets[b].winAmount # bets'[b].winAmount) =>
                 /\ currentGame.phase = "flying"
                 /\ bets[b].gameId = GetGameByRoundId(currentGame.roundId)
       /\ (\E u \in DOMAIN users : users'[u] > users[u]) => currentGame.phase = "flying"
       /\ \A b \in 1..Len(bets') :
             (bets'[b].winAmount > 0 /\ games'[bets'[b].gameId].crashed) =>
                 bets'[b].cashOutAt <= games'[bets'[b].gameId].multiplier]_vars

\* C34: the handler of every placeBet or cashOut request ends by sending its one
\* response, a success flag with a message: a request leaves its handler only by
\* the step that sends the response.
C34_EveryRequestAnswered ==
    [][\A c \in DOMAIN calls :
          (calls[c].kind \in {"placeBet", "manualCashOut"} /\ calls'[c].kind = "none") =>
              /\ calls[c].pc = "done"
              /\ calls[c].message # ""]_vars

\* C36: every player's balance is a number that is at least 0.
C36_BalanceNeverNegative ==
    \A u \in DOMAIN users : users[u] # NaN /\ users[u] >= 0

\* C39: a placeBet whose amount is not a positive number debits nothing and creates
\* no bet, it returns a failure, and no stored balance or bet amount is NaN.
C39_InvalidAmountRejected ==
    /\ \A r \in Calls :
          (r.kind = "placeBet" /\ (r.amount = NaN \/ r.amount <= 0)) =>
              /\ ~r.debited
              /\ ~r.created
              /\ r.pc = "done" => ~r.success
    /\ \A u \in DOMAIN users : users[u] # NaN
    /\ \A b \in 1..Len(bets) : bets[b].amount # NaN

\* C38: with no failure and nothing overlapping, once a round is over (crashGame has
\* finished, no request and no pass is pending) the player's balance is the balance
\* at the start of the round minus the amounts of the bets plus the payouts recorded
\* on them, and no bet is still active.
C38_MoneyConservedWhenSerial ==
    (round.pc = "timeout" /\ Quiet) =>
        /\ \A u \in DOMAIN users :
              users[u] = DefaultBalance - SumAmounts(1) + SumWinAmounts(1)
        /\ \A b \in 1..Len(bets) : ~bets[b].isActive

\* C35: the close that follows n closes since the last open (n = 0..4) schedules one
\* reconnect after 2^n seconds, a later close schedules none; the reconnects scheduled
\* since the last open are at most 5, after 1, 2, 4, 8 and 16 seconds; a socket is
\* created only by a scheduled reconnect, which is then used up; and an open sets
\* the attempt counter to 0.
C35_ReconnectBacksOffExponentially ==
    [][LET c == client
           d == client'
           backoff == <<1000, 2000, 4000, 8000, 16000>>
       IN  /\ (c.socket # "closed" /\ d.socket = "closed") =>
                 /\ c.reconnectTimeout = Null
                 /\ d.reconnectTimeout = IF c.closes <= 4 THEN backoff[c.closes + 1] ELSE Null
                 /\ c.closes = c.reconnectAttempts
           /\ Len(d.delays) <= 5
           /\ \A k \in 1..Len(d.delays) : d.delays[k] = backoff[k]
           /\ (d.socket = "connecting" /\ c.socket # "connecting") =>
                 /\ c.socket = "closed"
                 /\ c.reconnectTimeout # Null
                 /\ d.reconnectTimeout = Null
                 /\ d.reconnectAttempts = c.reconnectAttempts + 1
           /\ (d.socket = "open" /\ c.socket # "open") => d.reconnectAttempts = 0
           /\ d.reconnectAttempts <= 5]_vars

\* A socket opened, closed, the five reconnects that followed all failed, and the
\* hook has stopped.
C35_Witness ==
    /\ client.opens = 1
    /\ client.delays = <<1000, 2000, 4000, 8000, 16000>>
    /\ client.closes = 6
    /\ client.socket = "closed"
    /\ client.reconnectTimeout = Null
    /\ client.reconnectAttempts = 5
    /\ client.mounted

====
